---- MODULE Spec2Model ----
(***************************************************************************)
(* GPToeplitz.py: the LTZSolve wrapper around the native                   *)
(* LevinsonTrenchZoharSolve routine, its callers' buffers, and the         *)
(* module's self-test.                                                     *)
(*                                                                         *)
(* Doubles are modelled by exact rationals <<num, den>> (den > 0, lowest   *)
(* terms) extended with the IEEE-754 non-finite values <<1,0>> = +Inf,     *)
(* <<-1,0>> = -Inf and <<0,0>> = NaN.  Rounding and the sign of zero are   *)
(* not modelled.  A log-determinant is kept symbolically: <<"log", r>> is  *)
(* log(r) for a finite r > 0, and <<"num", s>> is the non-finite double s. *)
(***************************************************************************)
EXTENDS Integers, Sequences, FiniteSets, TLC

\* Bounds of the model.
MaxN == 3
MaxVal == 2
MaxCalls == 2

\* def LTZSolve(a,b,x): three positional parameters.
LTZSolveArity == 3
\* logdet,x = LTZSolve(a,b): the self-test passes two arguments.
SelfTestArgs == 2

Procs == {1, 2}
Names == {"a", "b", "x"}

VARIABLES LTZSolveC, heap, pc, args, snap, nat, invoked, logdetK, ret, prev,
          calls, overlap, mainpc, mainDense

vars == <<LTZSolveC, heap, pc, args, snap, nat, invoked, logdetK, ret, prev,
          calls, overlap, mainpc, mainDense>>

----------------------------------------------------------------------------
\* Double arithmetic.

Abs(i) == IF i < 0 THEN -i ELSE i

Sgn(i) == IF i < 0 THEN -1 ELSE IF i = 0 THEN 0 ELSE 1

RECURSIVE Gcd(_, _)
Gcd(m, n) == IF n = 0 THEN m ELSE Gcd(n, m % n)

Norm(n, d) ==
  IF d = 0 THEN <<Sgn(n), 0>>
  ELSE LET g == Gcd(Abs(n), Abs(d))
           s == Sgn(d)
       IN <<(s * n) \div g, (s * d) \div g>>

Zero == <<0, 1>>
One == <<1, 1>>
NaN == <<0, 0>>
PosInf == <<1, 0>>
NegInf == <<-1, 0>>

Dbl(i) == <<i, 1>>

IsFinite(r) == r[2] # 0

\* Common factors are taken out before the products are formed.
Mul(r, s) ==
  IF IsFinite(r) /\ IsFinite(s)
  THEN LET g == Gcd(Abs(r[1]), s[2])
           h == Gcd(Abs(s[1]), r[2])
       IN <<(r[1] \div g) * (s[1] \div h), (r[2] \div h) * (s[2] \div g)>>
  ELSE Norm(r[1] * s[1], 0)

Add(r, s) ==
  IF IsFinite(r) /\ IsFinite(s)
  THEN LET g == Gcd(r[2], s[2])
       IN Norm(r[1] * (s[2] \div g) + s[1] * (r[2] \div g), (r[2] \div g) * s[2])
  ELSE IF r = NaN \/ s = NaN THEN NaN
  ELSE IF IsFinite(r) THEN s
  ELSE IF IsFinite(s) THEN r
  ELSE IF r = s THEN r ELSE NaN

Neg(r) == <<-r[1], r[2]>>

Sub(r, s) == Add(r, Neg(s))

Recip(r) ==
  IF r = NaN THEN NaN
  ELSE IF ~IsFinite(r) THEN Zero
  ELSE IF r[1] = 0 THEN PosInf
  ELSE Norm(r[2], r[1])

Div(r, s) == Mul(r, Recip(s))

Log(r) ==
  IF IsFinite(r) /\ r[1] > 0 THEN <<"log", r>>
  ELSE IF r = Zero THEN <<"num", NegInf>>
  ELSE IF r = PosInf THEN <<"num", PosInf>>
  ELSE <<"num", NaN>>

LogNum(l) == IF l[1] = "log" THEN Zero ELSE l[2]

LogAdd(l, m) ==
  IF l[1] = "log" /\ m[1] = "log" THEN <<"log", Mul(l[2], m[2])>>
  ELSE <<"num", Add(LogNum(l), LogNum(m))>>

\* A read of element i of a C array; past the end it yields no defined value.
At(S, i) == IF i \in DOMAIN S THEN S[i] ELSE NaN

----------------------------------------------------------------------------
\* The native routine LevinsonTrenchZoharSolve(a, x, b, n): the Levinson
\* recursion with the log-determinant accumulated from the pivots.
\* A, B and X are the arrays as read at the step; k orders are solved.

\* sum over j = 1..m of A[k+2-j] * Y[j]: the last row of the order-(k+1)
\* Toeplitz matrix against Y.
RECURSIVE CrossCorr(_, _, _, _)
CrossCorr(A, Y, k, m) ==
  IF m = 0 THEN Zero
  ELSE Add(CrossCorr(A, Y, k, m - 1), Mul(At(A, k + 2 - m), At(Y, m)))

\* x[0] = b[0] / a[0], filter <<1>>, p_0 = a[0], logdet = log(p_0).
OrderOne(A, B, X) ==
  LET p0 == At(A, 1)
      x0 == Div(At(B, 1), p0)
  IN [st |-> [k |-> 1, f |-> <<One>>, piv |-> p0,
              logdet |-> LogAdd(Log(One), Log(p0)), pivots |-> <<p0>>],
      x |-> [i \in DOMAIN X |-> IF i = 1 THEN x0 ELSE X[i]]]

\* The order update k -> k+1.
OrderUpdate(st, A, B, X) ==
  LET k == st.k
      f == st.f
      gamma == Div(CrossCorr(A, f, k, k), st.piv)
      fn == [j \in 1..(k + 1) |->
               IF j = 1 THEN f[1]
               ELSE IF j = k + 1 THEN Neg(Mul(gamma, f[1]))
               ELSE Sub(f[j], Mul(gamma, f[k + 2 - j]))]
      pn == Mul(st.piv, Sub(One, Mul(gamma, gamma)))
      resid == Sub(At(B, k + 1), CrossCorr(A, X, k, k))
      mu == Div(resid, pn)
  IN [st |-> [k |-> k + 1, f |-> fn, piv |-> pn,
              logdet |-> LogAdd(st.logdet, Log(pn)),
              pivots |-> Append(st.pivots, pn)],
      x |-> [i \in DOMAIN X |->
               IF i <= k THEN Add(X[i], Mul(mu, fn[k + 2 - i]))
               ELSE IF i = k + 1 THEN mu
               ELSE X[i]]]

NoState == [k |-> 0, f |-> <<>>, piv |-> Zero, logdet |-> Log(One), pivots |-> <<>>]

----------------------------------------------------------------------------
\* The callers' arrays and the wrapper.

\* The array a location <<invocation, name>> names.
Read(l) == heap[l[1]][l[2]]

\* The arrays with the one at location l replaced by S.
Write(l, S) == [heap EXCEPT ![l[1]][l[2]] = S]

\* A call binds its positional arguments to the parameters of the def.
PyCall(nargs) == nargs = LTZSolveArity

\* The first assert alone.
CheckDimsNoX(p) == Len(Read(args[p].a)) = Len(Read(args[p].b))

\* assert a.size == b.size; assert a.size == x.size
CheckDims(p) ==
  /\ Len(Read(args[p].a)) = Len(Read(args[p].b))
  /\ Len(Read(args[p].a)) = Len(Read(args[p].x))

\* The arguments forwarded in the order of the wrapper's own parameters.
NativeArgsSwapped(p) ==
  [a |-> args[p].a, x |-> args[p].b, b |-> args[p].x,
   n |-> Len(Read(args[p].a))]

\* The solution written to one array of the module instead of the caller's.
NativeArgsShared(p) ==
  [a |-> args[p].a, x |-> <<1, "x">>, b |-> args[p].b,
   n |-> Len(Read(args[p].a))]

\* LTZSolveC(a,x,b,a.size): the native routine's a, x, b and n.
NativeArgs(p) ==
  [a |-> args[p].a, x |-> args[p].x, b |-> args[p].b,
   n |-> Len(Read(args[p].a))]

\* import of the module: the handle to the native routine, with its
\* argument and return types.
Handle ==
  [argtypes |-> <<"ndpointer(c_double)", "ndpointer(c_double)",
                  "ndpointer(c_double)", "c_int">>,
   restype |-> "c_double"]

NoArgs == [a |-> <<0, "a">>, b |-> <<0, "b">>, x |-> <<0, "x">>]
NoNat == [a |-> <<0, "a">>, x |-> <<0, "x">>, b |-> <<0, "b">>, n |-> 0,
          st |-> NoState]
NoSnap == [a |-> <<>>, b |-> <<>>, x |-> <<>>]
NoRet == [logdet |-> Log(One), x |-> <<0, "x">>]
NoPrev == [valid |-> FALSE, a |-> <<>>, b |-> <<>>, aliased |-> FALSE,
           logdet |-> Log(One), x |-> <<>>]

\* A caller calls LTZSolve(a, b, x) with its arrays a and b, and as x either
\* its array x or, again, its array b.
Call(p, px) ==
  /\ pc[p] = "idle"
  /\ calls[p] < MaxCalls
  /\ calls' = [calls EXCEPT ![p] = @ + 1]
  /\ LET bound == [a |-> <<p, "a">>, b |-> <<p, "b">>, x |-> <<p, px>>]
     IN IF PyCall(Cardinality(DOMAIN bound))
        THEN /\ args' = [args EXCEPT ![p] = bound]
             /\ snap' = [snap EXCEPT ![p] = [a |-> Read(bound.a), b |-> Read(bound.b),
                                             x |-> Read(bound.x)]]
             /\ pc' = [pc EXCEPT ![p] = "line29"]
        ELSE /\ pc' = [pc EXCEPT ![p] = "TypeError"]
             /\ UNCHANGED <<args, snap>>
  /\ invoked' = [invoked EXCEPT ![p] = FALSE]
  /\ UNCHANGED <<overlap, LTZSolveC, heap, nat, logdetK, ret, prev, mainpc, mainDense>>

\* Lines 29-30: the two asserts.
Check(p) ==
  /\ pc[p] = "line29"
  /\ pc' = [pc EXCEPT ![p] = IF CheckDims(p) THEN "line32" ELSE "AssertionError"]
  /\ UNCHANGED <<overlap, LTZSolveC, heap, args, snap, nat, invoked, logdetK, ret, prev,
                 calls, mainpc, mainDense>>

\* Line 32: the native routine is entered.
Invoke(p) ==
  /\ pc[p] = "line32"
  /\ Len(LTZSolveC.argtypes) = Cardinality(DOMAIN NativeArgs(p))
  /\ nat' = [nat EXCEPT ![p] = NativeArgs(p) @@ [st |-> NoState]]
  /\ invoked' = [invoked EXCEPT ![p] = TRUE]
  /\ pc' = [pc EXCEPT ![p] = "native"]
  /\ UNCHANGED <<overlap, LTZSolveC, heap, args, snap, logdetK, ret, prev, calls,
                 mainpc, mainDense>>

\* Invocation q is part-way through its recursion.
MidWay(q) == pc[q] = "native" /\ nat[q].st.k >= 1 /\ nat[q].st.k < nat[q].n

\* History: the invocations that were part-way through their recursion when
\* another invocation p took a step of its own.
Overlapped(p) == [q \in Procs |-> overlap[q] \/ (q # p /\ MidWay(q))]

\* The native routine's first order.
NativeOrderOne(p) ==
  /\ pc[p] = "native"
  /\ nat[p].n >= 1
  /\ nat[p].st.k = 0
  /\ LET r == OrderOne(Read(nat[p].a), Read(nat[p].b), Read(nat[p].x))
     IN /\ nat' = [nat EXCEPT ![p].st = r.st]
        /\ heap' = Write(nat[p].x, r.x)
  /\ overlap' = Overlapped(p)
  /\ UNCHANGED <<LTZSolveC, pc, args, snap, invoked, logdetK, ret, prev, calls,
                 mainpc, mainDense>>

\* One further order of the native routine.
NativeOrderUpdate(p) ==
  /\ pc[p] = "native"
  /\ nat[p].st.k >= 1
  /\ nat[p].st.k < nat[p].n
  /\ LET r == OrderUpdate(nat[p].st, Read(nat[p].a), Read(nat[p].b), Read(nat[p].x))
     IN /\ nat' = [nat EXCEPT ![p].st = r.st]
        /\ heap' = Write(nat[p].x, r.x)
  /\ overlap' = Overlapped(p)
  /\ UNCHANGED <<LTZSolveC, pc, args, snap, invoked, logdetK, ret, prev, calls,
                 mainpc, mainDense>>

\* The native routine returns its double, which restype hands to Python.
NativeReturn(p) ==
  /\ pc[p] = "native"
  /\ nat[p].n >= 1
  /\ nat[p].st.k = nat[p].n
  /\ LTZSolveC.restype = "c_double"
  /\ logdetK' = [logdetK EXCEPT ![p] = nat[p].st.logdet]
  /\ pc' = [pc EXCEPT ![p] = "line33"]
  /\ UNCHANGED <<overlap, LTZSolveC, heap, args, snap, nat, invoked, ret, prev, calls,
                 mainpc, mainDense>>

\* Doubles that a read of memory the routine does not own may lead to.
Garbage == {Log(One), <<"num", NaN>>, <<"num", NegInf>>, <<"num", PosInf>>}

\* The native routine entered with n = 0 reads a[0] and b[0] past the end of
\* empty arrays: the process dies with
\* every invocation in it, or some double comes back.
NativeEmpty(p) ==
  /\ pc[p] = "native"
  /\ nat[p].n = 0
  /\ \/ /\ pc' = [q \in Procs |-> IF pc[q] = "off" THEN "off" ELSE "crashed"]
        /\ UNCHANGED logdetK
     \/ /\ \E g \in Garbage : logdetK' = [logdetK EXCEPT ![p] = g]
        /\ pc' = [pc EXCEPT ![p] = "line33"]
  /\ UNCHANGED <<overlap, LTZSolveC, heap, args, snap, nat, invoked, ret, prev, calls,
                 mainpc, mainDense>>

\* The pair LTZSolve returns: logdetK and the caller's x.
Result(p) == [logdet |-> logdetK[p], x |-> args[p].x]

\* Line 33: return logdetK, x.
Return(p) ==
  /\ pc[p] = "line33"
  /\ ret' = [ret EXCEPT ![p] = Result(p)]
  /\ pc' = [pc EXCEPT ![p] = "returned"]
  /\ UNCHANGED <<overlap, LTZSolveC, heap, args, snap, nat, invoked, logdetK, prev, calls,
                 mainpc, mainDense>>

\* The caller keeps the result and is ready to call again with the arrays as
\* they now are.
Again(p) ==
  /\ pc[p] = "returned"
  /\ calls[p] < MaxCalls
  /\ prev' = [prev EXCEPT ![p] = [valid |-> TRUE, a |-> snap[p].a, b |-> snap[p].b,
                                  aliased |-> args[p].x = args[p].b,
                                  logdet |-> ret[p].logdet, x |-> Read(ret[p].x)]]
  /\ pc' = [pc EXCEPT ![p] = "idle"]
  /\ UNCHANGED <<overlap, LTZSolveC, heap, args, snap, nat, invoked, logdetK, ret, calls,
                 mainpc, mainDense>>

----------------------------------------------------------------------------
\* The self-test (the module run as __main__).

SelfTestA ==
  <<Dbl(30), Dbl(1), <<3, 10>>, <<1, 5>>, <<1, 10>>, <<1, 5>>, <<3, 10>>,
    Dbl(15), Dbl(12), Dbl(8)>>

SelfTestB ==
  <<Dbl(1), <<6, 5>>, <<23, 10>>, <<1, 5>>, Dbl(1), Dbl(2), <<13, 10>>,
    Dbl(1), Dbl(5), <<1, 5>>>>

\* Lines 202-203: the arrays a and b.
MainArrays ==
  /\ mainpc = "line202"
  /\ heap' = [heap EXCEPT ![1] = [a |-> SelfTestA, b |-> SelfTestB, x |-> <<>>]]
  /\ mainpc' = "line206"
  /\ UNCHANGED <<LTZSolveC, pc, args, snap, nat, invoked, logdetK, ret, prev,
                 calls, overlap, mainDense>>

\* Lines 206-208: logdet and x by dense determinant and inversion (numpy and
\* scipy), printed.
MainDense ==
  /\ mainpc = "line206"
  /\ mainDense' = TRUE
  /\ mainpc' = "line211"
  /\ UNCHANGED <<LTZSolveC, heap, pc, args, snap, nat, invoked, logdetK, ret,
                 prev, calls, overlap>>

\* Line 211: logdet,x = LTZSolve(a,b).
MainLTZ ==
  /\ mainpc = "line211"
  /\ IF PyCall(SelfTestArgs)
     THEN /\ args' = [args EXCEPT ![1] = [a |-> <<1, "a">>, b |-> <<1, "b">>,
                                          x |-> <<1, "x">>]]
          /\ snap' = [snap EXCEPT ![1] = heap[1]]
          /\ pc' = [pc EXCEPT ![1] = "line29"]
          /\ mainpc' = "inLTZSolve"
     ELSE /\ mainpc' = "TypeError"
          /\ UNCHANGED <<args, snap, pc>>
  /\ UNCHANGED <<LTZSolveC, heap, nat, invoked, logdetK, ret, prev, calls,
                 overlap, mainDense>>

----------------------------------------------------------------------------
\* The states the program starts in.

Ones(n) == [i \in 1..n |-> One]
Unit(n, k) == [i \in 1..n |-> IF i = k THEN One ELSE Zero]
Fill(n, v) == [i \in 1..n |-> Dbl(v)]

\* Generating vectors, right-hand sides, and the contents an x array has
\* before a call.
AVecs == UNION {[1..n -> {Dbl(v) : v \in 0..MaxVal}] : n \in 0..MaxN}
BVecs == UNION {{Unit(n, k) : k \in 1..n} \cup {Ones(n)} : n \in 0..MaxN}
XVecs == {Fill(n, v) : n \in 0..MaxN, v \in {0, 1}}

NoArrays == [a |-> <<>>, b |-> <<>>, x |-> <<>>]

InitRest ==
  /\ LTZSolveC = Handle
  /\ args = [p \in Procs |-> NoArgs]
  /\ snap = [p \in Procs |-> NoSnap]
  /\ nat = [p \in Procs |-> NoNat]
  /\ invoked = [p \in Procs |-> FALSE]
  /\ logdetK = [p \in Procs |-> Log(One)]
  /\ ret = [p \in Procs |-> NoRet]
  /\ prev = [p \in Procs |-> NoPrev]
  /\ calls = [p \in Procs |-> 0]
  /\ overlap = [p \in Procs |-> FALSE]
  /\ mainDense = FALSE

\* The module imported by one caller, which holds three arrays.
InitImport ==
  /\ \E A \in AVecs, B \in BVecs, X \in XVecs :
       heap = [p \in Procs |-> IF p = 1 THEN [a |-> A, b |-> B, x |-> X] ELSE NoArrays]
  /\ pc = [p \in Procs |-> IF p = 1 THEN "idle" ELSE "off"]
  /\ mainpc = "off"
  /\ InitRest

\* The module run as __main__.
InitMain ==
  /\ heap = [p \in Procs |-> NoArrays]
  /\ pc = [p \in Procs |-> "off"]
  /\ mainpc = "line202"
  /\ InitRest

Init == InitImport \/ InitMain

Next ==
  \/ \E p \in Procs, px \in {"x", "b"} : Call(p, px)
  \/ \E p \in Procs : Check(p)
  \/ \E p \in Procs : Invoke(p)
  \/ \E p \in Procs : NativeOrderOne(p)
  \/ \E p \in Procs : NativeOrderUpdate(p)
  \/ \E p \in Procs : NativeReturn(p)
  \/ \E p \in Procs : NativeEmpty(p)
  \/ \E p \in Procs : Return(p)
  \/ \E p \in Procs : Again(p)
  \/ MainArrays
  \/ MainDense
  \/ MainLTZ

Spec == Init /\ [][Next]_vars

\* Two callers at once, each with three arrays of its own, of one length.
ConcA(n, d) == [i \in 1..n |-> IF i = 1 THEN Dbl(d) ELSE One]

ConcArrays ==
  UNION {{[a |-> ConcA(n, d), b |-> B, x |-> Fill(n, 0)] :
            d \in 1..MaxVal, B \in {Ones(n), Unit(n, 1)}} : n \in 0..MaxN}

InitConc ==
  /\ heap \in [Procs -> ConcArrays]
  /\ pc = [p \in Procs |-> "idle"]
  /\ mainpc = "off"
  /\ InitRest

NextConc ==
  \/ \E p \in Procs : Call(p, "x")
  \/ \E p \in Procs : Check(p)
  \/ \E p \in Procs : Invoke(p)
  \/ \E p \in Procs : NativeOrderOne(p)
  \/ \E p \in Procs : NativeOrderUpdate(p)
  \/ \E p \in Procs : NativeReturn(p)
  \/ \E p \in Procs : NativeEmpty(p)
  \/ \E p \in Procs : Return(p)

SpecConc == InitConc /\ [][NextConc]_vars

----------------------------------------------------------------------------
\* The dense reference: the Toeplitz matrix A[i][j] = a[|i-j|], its product
\* with a vector, and its leading principal minors by cofactor expansion.

Entry(A, i, j) == A[Abs(i - j) + 1]

RECURSIVE RowDot(_, _, _, _)
RowDot(A, X, i, m) ==
  IF m = 0 THEN Zero ELSE Add(RowDot(A, X, i, m - 1), Mul(Entry(A, i, m), X[m]))

MatVec(A, X) == [i \in 1..Len(A) |-> RowDot(A, X, i, Len(A))]

\* The determinant of rows r..m against the columns cols, along row r.
RECURSIVE Minor(_, _, _, _)
Minor(A, r, m, cols) ==
  IF r > m THEN One
  ELSE LET Term(c) ==
             LET before == Cardinality({d \in cols : d < c})
                 t == Mul(Entry(A, r, c), Minor(A, r + 1, m, cols \ {c}))
             IN IF before % 2 = 0 THEN t ELSE Neg(t)
           Sum[S \in SUBSET cols] ==
             IF S = {} THEN Zero
             ELSE LET c == CHOOSE d \in S : TRUE IN Add(Term(c), Sum[S \ {c}])
       IN Sum[cols]

Det(A, m) == Minor(A, 1, m, 1..m)

Positive(r) == IsFinite(r) /\ r[1] > 0

\* Symmetric positive-definite: every leading principal minor is positive.
SPD(A) == Len(A) >= 1 /\ \A m \in 1..Len(A) : Positive(Det(A, m))

Returned(p) == pc[p] = "returned"

Aliased(p) == args[p].x = args[p].b

LengthsAgree(p) == Len(snap[p].a) = Len(snap[p].b) /\ Len(snap[p].a) = Len(snap[p].x)

\* C1: for a symmetric positive-definite Toeplitz matrix A generated by a and
\* a right-hand side b of the same length n >= 1, a returned call leaves in x
\* a vector with A*x = b, and its logdet is log(det(A)), the pivots being the
\* ratios of successive leading minors (p_0 = a[0]).
C1_SolvesAndLogDet ==
  \A p \in Procs :
    (Returned(p) /\ SPD(snap[p].a)) =>
      LET A == snap[p].a
          n == Len(A)
      IN /\ MatVec(A, Read(ret[p].x)) = snap[p].b
         /\ ret[p].logdet = <<"log", Det(A, n)>>
         /\ Len(nat[p].st.pivots) = n
         /\ nat[p].st.pivots[1] = A[1]
         /\ \A m \in 2..n :
              nat[p].st.pivots[m] = Div(Det(A, m), Det(A, m - 1))

C1_Witness ==
  \E p \in Procs :
    /\ Returned(p)
    /\ SPD(snap[p].a)
    /\ Len(snap[p].a) >= 3
    /\ snap[p].a[2] # Zero
    /\ snap[p].a[3] # Zero
    /\ snap[p].b[3] # Zero
    /\ \E i \in 1..3 : Read(ret[p].x)[i][2] > 1


\* C2: when the lengths of a, b and x are not all equal, the call fails at an
\* assert: the native routine is never entered and x keeps its contents.
C2_MismatchFailsBeforeNative ==
  \A p \in Procs :
    (pc[p] \notin {"idle", "off"} /\ ~LengthsAgree(p)) =>
      /\ pc[p] \in {"line29", "AssertionError"}
      /\ ~invoked[p]
      /\ Read(args[p].x) = snap[p].x

C2_Witness ==
  \E p \in Procs :
    /\ pc[p] = "AssertionError"
    /\ Len(snap[p].a) = Len(snap[p].b)
    /\ Len(snap[p].x) # Len(snap[p].a)
    /\ Len(snap[p].a) >= 1

\* C3: a call with a, b and x all of length 0 (three arrays) fails before any
\* recursion step: the native routine is never entered with n = 0.
C3_EmptyNeverReachesNative ==
  \A p \in Procs : (invoked[p] /\ ~Aliased(p)) => nat[p].n >= 1

\* C4: a call with a[0] = 0 (b and x two arrays) fails before the division by
\* a[0]: it returns no x or logdet to its caller.
C4_ZeroDiagonalFails ==
  \A p \in Procs :
    (Returned(p) /\ ~Aliased(p) /\ Len(snap[p].a) >= 1) => snap[p].a[1] # Zero

\* C5: a call (b and x two arrays) in which some pivot p_k is zero or negative
\* fails: no call returns a logdet that holds the log of a non-positive pivot.
C5_NonPositivePivotFails ==
  \A p \in Procs :
    (Returned(p) /\ ~Aliased(p) /\ nat[p].n >= 1) =>
      /\ \A k \in DOMAIN nat[p].st.pivots : Positive(nat[p].st.pivots[k])
      /\ ret[p].logdet[1] = "log"

\* A call returned with logdet NaN after a pivot went negative at order 2.
NegativePivotReturned ==
  \E p \in Procs :
    /\ Returned(p)
    /\ ~Aliased(p)
    /\ Len(nat[p].st.pivots) >= 2
    /\ Positive(nat[p].st.pivots[1])
    /\ nat[p].st.pivots[2][1] < 0
    /\ ret[p].logdet = <<"num", NaN>>

\* C6: after any successful call the contents of a and of b are what they
\* were before the call.
C6_InputsUnchanged ==
  \A p \in Procs :
    Returned(p) => Read(args[p].a) = snap[p].a /\ Read(args[p].b) = snap[p].b

SameInputsSameOutputsNonEmpty ==
  \A p \in Procs :
    (/\ Returned(p)
     /\ prev[p].valid
     /\ ~prev[p].aliased
     /\ ~Aliased(p)
     /\ prev[p].a = snap[p].a
     /\ prev[p].b = snap[p].b
     /\ Len(snap[p].a) >= 1) =>
      /\ ret[p].logdet = prev[p].logdet
      /\ Read(ret[p].x) = prev[p].x

\* A second call of length n >= 2 whose x held the first call's solution.
SecondCallReached ==
  \E p \in Procs :
    /\ Returned(p)
    /\ prev[p].valid
    /\ ~prev[p].aliased
    /\ ~Aliased(p)
    /\ prev[p].a = snap[p].a
    /\ prev[p].b = snap[p].b
    /\ Len(snap[p].a) >= 2
    /\ snap[p].x = prev[p].x
    /\ \E i \in DOMAIN snap[p].x : snap[p].x[i][2] > 1
    /\ ret[p].logdet # Log(One)

\* After a successful call whose b and x are two arrays, a and b are what
\* they were before the call.
InputsUnchangedUnlessAliased ==
  \A p \in Procs :
    (Returned(p) /\ ~Aliased(p)) =>
      Read(args[p].a) = snap[p].a /\ Read(args[p].b) = snap[p].b

\* The result of one invocation run with no other: the orders in sequence.
RECURSIVE Orders(_, _, _, _)
Orders(st, A, B, X) ==
  IF st.k >= Len(A) THEN [logdet |-> st.logdet, x |-> X]
  ELSE LET r == OrderUpdate(st, A, B, X) IN Orders(r.st, A, B, r.x)

\* What one invocation run with no other may return.
Alone(A, B, X) ==
  IF Len(A) = 0 THEN {[logdet |-> g, x |-> X] : g \in Garbage}
  ELSE LET r == OrderOne(A, B, X) IN {Orders(r.st, A, B, r.x)}

C9_SelfTestCompletes ==
  /\ mainpc # "TypeError"
  /\ mainpc \in {"inLTZSolve", "TypeError"} => mainDense

\* C10: no call with b and x the same array enters the native routine.
C10_AliasedNeverReachesNative ==
  \A p \in Procs : invoked[p] => ~Aliased(p)

====
